---- MODULE Spec2Model ----
(***************************************************************************)
(* Model of the screenshot analyser: the POST handler and takeScreenshots  *)
(* of the two route handlers of the repository,                            *)
(*   src/unnamed/part_000           (impl = "part_000")                    *)
(*   src/app/api/analyze/route.js   (impl = "route")                       *)
(* Lengths are integers in sub-pixel units: one CSS pixel is Scale units,  *)
(* so that Math.floor and Math.round are real conversions.  Values that    *)
(* the code has floored or rounded, raster sizes and scroll distances are  *)
(* whole pixels.                                                           *)
(***************************************************************************)
EXTENDS Integers, Sequences, FiniteSets, TLC

\* ------------------------------------------------------------- bounds
Scale == 2              \* sub-pixel units per CSS pixel
MaxClock == 1           \* readings of Date.now() the model distinguishes: 0..MaxClock
MaxScrollHeight == 900  \* the page's scroll height never grows beyond this (px)
GrowStep == 300         \* what lazily loaded content adds to the scroll height at once (px)
MaxFlat == 2            \* elements of a flat page (the slicing inputs)

\* ------------------------------------------------- program constants
ViewportWidth == 1280
ViewportHeight == 800
distance == 200
MinHeight == 50
MinWidth == 100
MinSide_route == 100
MegaNum == 8
MegaDen == 10

Px(n) == n * Scale
\* Math.floor and Math.round (half up) of a sub-pixel length, in whole pixels.
\* \div is the floored division, also on negative numbers.
Floor(x) == x \div Scale
Round(x) == (2 * x + Scale) \div (2 * Scale)

Min(a, b) == IF a < b THEN a ELSE b
Max(a, b) == IF a > b THEN a ELSE b

Range(s) == {s[k] : k \in 1..Len(s)}

\* ---------------------------------------------------------------- DOM
\* A DOM is [n, parent, el, main]: elements 1..n in document order, body is
\* 0, parent[e] < e, el[e] the computed style and the layout box of e
\* (top/left in document coordinates, or in viewport coordinates for a
\* position: fixed element), main the first <main> element or 0.
Body == 0

children(dom, c) == SelectSeq([k \in 1..dom.n |-> k], LAMBDA e : dom.parent[e] = c)

\* el.getBoundingClientRect() at scroll offset sy (whole pixels)
getBoundingClientRect(dom, sy, e) ==
    LET b == dom.el[e]
        t == IF b.position = "fixed" THEN b.top ELSE b.top - Px(sy)
    IN  [top |-> t, left |-> b.left, width |-> b.width, height |-> b.height,
         bottom |-> t + b.height]

isPotentialSection(dom, e) ==
    LET style == dom.el[e] IN
    IF \/ style.display = "none" \/ style.visibility = "hidden"
       \/ style.opacity = "0" \/ style.position = "fixed"
    THEN FALSE
    ELSE style.height > Px(MinHeight) /\ style.width > Px(MinWidth)

isPotentialSection_route(dom, e) ==
    LET style == dom.el[e] IN
    IF \/ style.display = "none" \/ style.visibility = "hidden"
       \/ style.opacity = "0"
    THEN FALSE
    ELSE style.width > Px(MinSide_route) /\ style.height > Px(MinSide_route)

getSections(dom, c) == SelectSeq(children(dom, c), LAMBDA e : isPotentialSection(dom, e))

getSections_route(dom, c) ==
    SelectSeq(children(dom, c), LAMBDA e : isPotentialSection_route(dom, e))

\* a detector that does not look inside a single wrapper
drillDownBug(dom, cands) == cands

\* while (candidateElements.length === 1) { container = ...; candidateElements = ... }
RECURSIVE drillDown(_, _)
drillDown(dom, cands) ==
    IF Len(cands) = 1 THEN drillDown(dom, getSections(dom, cands[1])) ELSE cands

\* candidateElements after the drill-down from body and the <main> fallback
candidateElements(dom) ==
    LET fromBody == drillDown(dom, getSections(dom, Body))
    IN  IF Len(fromBody) <= 2 /\ dom.main # 0
        THEN LET mainCandidates == drillDown(dom, getSections(dom, dom.main))
             IN  IF Len(mainCandidates) > Len(fromBody) THEN mainCandidates
                 ELSE fromBody
        ELSE fromBody

RECURSIVE sumHeights(_, _)
sumHeights(dom, s) ==
    IF s = << >> THEN 0 ELSE dom.el[Head(s)].height + sumHeights(dom, Tail(s))

\* height > totalHeight * 0.8
exceedsShare(dom, cands, e) ==
    MegaDen * dom.el[e].height > MegaNum * sumHeights(dom, cands)

\* candidateElements.find(...): the first such candidate, or 0 (undefined)
megaContainer(dom, cands) ==
    LET hits == SelectSeq(cands, LAMBDA e : exceedsShare(dom, cands, e))
    IN  IF hits = << >> THEN 0 ELSE hits[1]

\* a collapse that keeps the mega-container beside its children
collapsedBug(dom, cands) ==
    LET m == megaContainer(dom, cands) IN
    IF m # 0 THEN getSections(dom, m) \o cands ELSE cands

\* finalElements before the final filter and sort
collapsed(dom, cands) ==
    LET m == megaContainer(dom, cands) IN
    IF m # 0
    THEN getSections(dom, m) \o SelectSeq(cands, LAMBDA e : e # m)
    ELSE cands

\* Array.prototype.sort with (a, b) => a.top - b.top: stable, ascending.
RECURSIVE insertByTop(_, _, _, _)
insertByTop(dom, sy, e, s) ==
    IF s = << >> THEN << e >>
    ELSE IF getBoundingClientRect(dom, sy, e).top
              < getBoundingClientRect(dom, sy, Head(s)).top
         THEN << e >> \o s
         ELSE << Head(s) >> \o insertByTop(dom, sy, e, Tail(s))

\* a detector that leaves the elements in the order it found them
sortByTopBug(dom, sy, s) == s

RECURSIVE sortByTop(_, _, _)
sortByTop(dom, sy, s) ==
    IF s = << >> THEN << >>
    ELSE insertByTop(dom, sy, s[Len(s)], sortByTop(dom, sy, SubSeq(s, 1, Len(s) - 1)))

\* the elements the in-page detector of part_000 returns, in order
finalElements(dom, sy) ==
    LET kept == SelectSeq(collapsed(dom, candidateElements(dom)),
                          LAMBDA e : getBoundingClientRect(dom, sy, e).height > Px(MinHeight))
    IN  sortByTop(dom, sy, kept)

\* the elements the in-page detector of route.js returns, in order
foundSections(dom) ==
    LET container == IF dom.main # 0 THEN dom.main ELSE Body
        found == getSections_route(dom, container)
    IN  IF Len(found) <= 1
        THEN LET parent == IF Len(found) = 1 THEN found[1] ELSE container
                 innerSections == getSections_route(dom, parent)
             IN  IF Len(innerSections) > 1 THEN innerSections ELSE found
        ELSE found

sectionOf(dom, sy, e) ==
    LET rect == getBoundingClientRect(dom, sy, e)
    IN  [y_start |-> rect.top + Px(sy), y_end |-> rect.bottom + Px(sy)]

sectionOf_route(dom, sy, e) ==
    LET rect == getBoundingClientRect(dom, sy, e)
    IN  [x |-> rect.left, y |-> rect.top + Px(sy),
         width |-> rect.width, height |-> rect.height]

detectedElements(im, dom, sy) ==
    IF im = "part_000" THEN finalElements(dom, sy) ELSE foundSections(dom)

sectionCoordinates(im, dom, sy, els) ==
    [k \in 1..Len(els) |->
        IF im = "part_000" THEN sectionOf(dom, sy, els[k])
        ELSE sectionOf_route(dom, sy, els[k])]

\* ------------------------------------------------------------ slicing
\* part_000: const clip = { left: 0, top: Math.round(..), width: 1280, height: Math.round(..) }
clipOf(section) ==
    [left |-> 0, top |-> Round(section.y_start), width |-> ViewportWidth,
     height |-> Round(section.y_end - section.y_start)]

\* part_000: if (clip.height <= 0 || clip.width <= 0) continue
isInvalid(c) == c.height <= 0 \/ c.width <= 0

\* route.js: the floored clip, then the four corrections in the code's order
clipOf_route(section, metadata) ==
    LET c0 == [left |-> Floor(section.x), top |-> Floor(section.y),
               width |-> Floor(section.width), height |-> Floor(section.height)]
        c1 == IF c0.left + c0.width > metadata.width
              THEN [c0 EXCEPT !.width = metadata.width - c0.left] ELSE c0
        c2 == IF c1.top + c1.height > metadata.height
              THEN [c1 EXCEPT !.height = metadata.height - c1.top] ELSE c1
        c3 == IF c2.left < 0 THEN [c2 EXCEPT !.left = 0] ELSE c2
    IN  IF c3.top < 0 THEN [c3 EXCEPT !.top = 0] ELSE c3

\* sharp's extract(clip).toFile() on an image of size img: it rejects a negative
\* offset, an empty area and an area that leaves the image.
extractOk(c, img) ==
    /\ c.left >= 0 /\ c.top >= 0 /\ c.width > 0 /\ c.height > 0
    /\ c.left + c.width <= img.width /\ c.top + c.height <= img.height

\* `section-${i + 1}.png`, i the loop index from 0
sectionName(i) == i + 1

\* a list with one reference too many
screenshotPathsBug(dir, numScreenshots) ==
    [k \in 1..(numScreenshots + 1) |-> [dir |-> dir, name |-> k]]

\* Array.from({ length: numScreenshots }, (_, i) => `/screenshots/${uniqueDir}/section-${i + 1}.png`)
screenshotPaths(dir, numScreenshots) ==
    [k \in 1..numScreenshots |-> [dir |-> dir, name |-> k]]

\* -------------------------------------------------------------- POST
\* hostname.replace(/www\./, ''): the first "www." of the host name is removed
RECURSIVE stripWww(_)
stripWww(h) ==
    IF Len(h) < 4 THEN h
    ELSE IF SubSeq(h, 1, 4) = <<"w", "w", "w", ".">> THEN SubSeq(h, 5, Len(h))
         ELSE << Head(h) >> \o stripWww(Tail(h))

\* `${urlHost}-${date}`.replace(/:/g, '-'): date is new Date().toISOString(), 24
\* characters that name the clock's millisecond one to one, so the directory
\* name is the pair (stripped host, clock reading).
uniqueDirOf(url, now) == [host |-> stripWww(url.hostname), date |-> now]

\* ------------------------------------------------------------- state
Runs == {1, 2}
NoUrl == [kind |-> "missing"]
NoDir == [host |-> << >>, date |-> -1]
NoClip == [left |-> 0, top |-> 0, width |-> 0, height |-> 0]
NoResponse == [status |-> 0, screenshots |-> << >>]
MasterName == 0     \* the file name master.png; section-k.png is k >= 1

VARIABLES
    active,         \* the requests that are made
    impl,           \* impl[r]: the route handler that serves request r
    url,            \* url[r]: the request body's url
    page,           \* page[r]: the page behind the url: its settled DOM, the size
                    \* of its full-page raster, its scroll height on load
    clock,          \* the system clock, in milliseconds
    fs,             \* public/screenshots: the files, each with its image size
    dirs,           \* public/screenshots: the directories made
    pc,             \* pc[r]: where request r stands
    browser,        \* browser[r]: a browser is open
    uniqueDir,      \* POST's uniqueDir
    totalHeight,    \* the scroll loop's totalHeight
    scrollHeight,   \* document.body.scrollHeight, live
    scrollY,        \* window.scrollY
    finalEls,       \* the detector's finalElements (foundSections in route.js)
    sections,       \* takeScreenshots' sections
    metadata,       \* route.js: the raster's metadata
    i,              \* the slicing loop's index, from 0
    clip,           \* the slicing loop's clip
    handed,         \* clip was handed to sharp's extract in the last iteration
    written,        \* the file names request r has written
    numScreenshots, \* POST's numScreenshots
    response        \* POST's response

vars == << active, impl, url, page, clock, fs, dirs, pc, browser, uniqueDir,
           totalHeight, scrollHeight, scrollY, finalEls, sections, metadata, i,
           clip, handed, written, numScreenshots, response >>

envVars == << active, impl, url, page >>
scrollVars == << totalHeight, scrollHeight, scrollY >>
sliceVars == << metadata, i, clip, handed >>

\* --------------------------------------------------------- file system
masterFiles(dir) == {f \in fs : f.dir = dir /\ f.name = MasterName}

\* a write replaces the file of that path
writeFile(dir, name, img, r) ==
    {f \in fs : ~(f.dir = dir /\ f.name = name)}
        \cup {[dir |-> dir, name |-> name, width |-> img.width, height |-> img.height, by |-> r]}

imageOf(f) == [width |-> f.width, height |-> f.height]

\* ------------------------------------------------------------ actions
\* catch (error) { ... status: 500 }, finally { await browser.close() }
Failed(r) ==
    /\ response' = [response EXCEPT ![r] = [status |-> 500, screenshots |-> << >>]]
    /\ browser' = [browser EXCEPT ![r] = FALSE]
    /\ pc' = [pc EXCEPT ![r] = "done"]

\* const { url } = await request.json(); if (!url) return 400
Post(r) ==
    /\ pc[r] = "post"
    /\ IF url[r] = NoUrl
       THEN /\ response' = [response EXCEPT ![r] = [status |-> 400, screenshots |-> << >>]]
            /\ pc' = [pc EXCEPT ![r] = "done"]
       ELSE /\ pc' = [pc EXCEPT ![r] = "launch"]
            /\ UNCHANGED response
    /\ UNCHANGED << envVars, clock, fs, dirs, browser, uniqueDir, scrollVars, finalEls,
                    sections, sliceVars, written, numScreenshots >>

\* chromium.launch, browser.newContext, context.newPage
Launch(r) ==
    /\ pc[r] = "launch"
    /\ browser' = [browser EXCEPT ![r] = TRUE]
    /\ pc' = [pc EXCEPT ![r] = "mkdir"]
    /\ UNCHANGED << envVars, clock, fs, dirs, uniqueDir, scrollVars, finalEls, sections,
                    sliceVars, written, numScreenshots, response >>

\* new URL(url) (throws on an invalid url), uniqueDir, fs.mkdir(recursive)
MkDir(r) ==
    /\ pc[r] = "mkdir"
    /\ IF url[r].kind = "invalid"
       THEN /\ Failed(r)
            /\ UNCHANGED << uniqueDir, dirs >>
       ELSE /\ uniqueDir' = [uniqueDir EXCEPT ![r] = uniqueDirOf(url[r], clock)]
            /\ dirs' = dirs \cup {uniqueDirOf(url[r], clock)}
            /\ pc' = [pc EXCEPT ![r] = "goto"]
            /\ UNCHANGED << browser, response >>
    /\ UNCHANGED << envVars, clock, fs, scrollVars, finalEls, sections, sliceVars,
                    written, numScreenshots >>

\* page.goto, page.setViewportSize; the scroll loop starts
Goto(r) ==
    /\ pc[r] = "goto"
    /\ pc' = [pc EXCEPT ![r] = "scroll"]
    /\ totalHeight' = [totalHeight EXCEPT ![r] = 0]
    /\ scrollHeight' = [scrollHeight EXCEPT ![r] = page[r].scrollHeight]
    /\ scrollY' = [scrollY EXCEPT ![r] = 0]
    /\ UNCHANGED << envVars, clock, fs, dirs, browser, uniqueDir, finalEls, sections,
                    sliceVars, written, numScreenshots, response >>

\* page.goto rejects (DNS, network, load timeout)
GotoFail(r) ==
    /\ pc[r] = "goto"
    /\ Failed(r)
    /\ UNCHANGED << envVars, clock, fs, dirs, uniqueDir, scrollVars, finalEls, sections,
                    sliceVars, written, numScreenshots >>

\* a loop that reads the scroll height once, before it starts
scrollHeightCached(r) == page[r].scrollHeight

\* const scrollHeight = document.body.scrollHeight, read in the timer's callback
scrollHeightRead(r) == scrollHeight[r]

\* one callback of the setInterval timer
ScrollTick(r) ==
    /\ pc[r] = "scroll"
    /\ scrollY' = [scrollY EXCEPT ![r] =
                      Min(scrollY[r] + distance, Max(scrollY[r], scrollHeight[r] - ViewportHeight))]
    /\ totalHeight' = [totalHeight EXCEPT ![r] = totalHeight[r] + distance]
    /\ pc' = [pc EXCEPT ![r] =
                 IF totalHeight[r] + distance >= scrollHeightRead(r) THEN "settle" ELSE "scroll"]
    /\ UNCHANGED << envVars, clock, fs, dirs, browser, uniqueDir, scrollHeight, finalEls,
                    sections, sliceVars, written, numScreenshots, response >>

\* lazily loaded content makes the page taller while it is scrolled
Grow(r) ==
    /\ pc[r] = "scroll"
    /\ scrollHeight[r] + GrowStep <= MaxScrollHeight
    /\ scrollHeight' = [scrollHeight EXCEPT ![r] = scrollHeight[r] + GrowStep]
    /\ UNCHANGED << envVars, clock, fs, dirs, pc, browser, uniqueDir, totalHeight, scrollY,
                    finalEls, sections, sliceVars, written, numScreenshots, response >>

\* page.waitForTimeout(1000)
Settle(r) ==
    /\ pc[r] = "settle"
    /\ pc' = [pc EXCEPT ![r] = "measure"]
    /\ UNCHANGED << envVars, clock, fs, dirs, browser, uniqueDir, scrollVars, finalEls,
                    sections, sliceVars, written, numScreenshots, response >>

\* the in-page detector, and if (sections.length === 0) return 0
Measure(r) ==
    /\ pc[r] = "measure"
    /\ LET els == detectedElements(impl[r], page[r].dom, scrollY[r])
           secs == sectionCoordinates(impl[r], page[r].dom, scrollY[r], els)
       IN  /\ finalEls' = [finalEls EXCEPT ![r] = els]
           /\ sections' = [sections EXCEPT ![r] = secs]
           /\ IF Len(secs) = 0
              THEN /\ numScreenshots' = [numScreenshots EXCEPT ![r] = 0]
                   /\ pc' = [pc EXCEPT ![r] = "respond"]
              ELSE /\ pc' = [pc EXCEPT ![r] = "screenshot"]
                   /\ UNCHANGED numScreenshots
    /\ UNCHANGED << envVars, clock, fs, dirs, browser, uniqueDir, scrollVars, sliceVars,
                    written, response >>

\* page.screenshot({ path: masterScreenshotPath, fullPage: true })
Screenshot(r) ==
    /\ pc[r] = "screenshot"
    /\ fs' = writeFile(uniqueDir[r], MasterName,
                       [width |-> page[r].rasterWidth, height |-> page[r].rasterHeight], r)
    /\ written' = [written EXCEPT ![r] = written[r] \cup {MasterName}]
    /\ i' = [i EXCEPT ![r] = 0]
    /\ pc' = [pc EXCEPT ![r] = IF impl[r] = "route" THEN "metadata" ELSE "slice"]
    /\ UNCHANGED << envVars, clock, dirs, browser, uniqueDir, scrollVars, finalEls, sections,
                    metadata, clip, handed, numScreenshots, response >>

\* route.js: const metadata = await image.metadata()
Metadata(r) ==
    /\ pc[r] = "metadata"
    /\ IF masterFiles(uniqueDir[r]) = {}
       THEN /\ Failed(r)
            /\ UNCHANGED metadata
       ELSE /\ metadata' = [metadata EXCEPT ![r] =
                               imageOf(CHOOSE f \in masterFiles(uniqueDir[r]) : TRUE)]
            /\ pc' = [pc EXCEPT ![r] = "slice"]
            /\ UNCHANGED << browser, response >>
    /\ UNCHANGED << envVars, clock, fs, dirs, uniqueDir, scrollVars, finalEls, sections,
                    i, clip, handed, written, numScreenshots >>

\* the clip the loop builds for section k (from 1)
clipFor(r, k) ==
    IF impl[r] = "route" THEN clipOf_route(sections[r][k], metadata[r])
    ELSE clipOf(sections[r][k])

\* a validity check that also skips clips of up to 150px
skipsBug(r, c) == impl[r] = "part_000" /\ (c.height <= 150 \/ c.width <= 0)

\* the loop skips the clip instead of extracting it (part_000 only)
skips(r, c) == impl[r] = "part_000" /\ isInvalid(c)

\* one iteration of the slicing loop
Slice(r) ==
    /\ pc[r] = "slice"
    /\ i[r] < Len(sections[r])
    /\ LET c == clipFor(r, i[r] + 1)
           master == masterFiles(uniqueDir[r])
       IN  /\ clip' = [clip EXCEPT ![r] = c]
           /\ IF skips(r, c)
              THEN /\ handed' = [handed EXCEPT ![r] = FALSE]
                   /\ i' = [i EXCEPT ![r] = i[r] + 1]
                   /\ UNCHANGED << fs, written, pc, browser, response >>
              ELSE /\ handed' = [handed EXCEPT ![r] = TRUE]
                   /\ IF master # {} /\ extractOk(c, imageOf(CHOOSE f \in master : TRUE))
                      THEN /\ fs' = writeFile(uniqueDir[r], sectionName(i[r]), c, r)
                           /\ written' = [written EXCEPT ![r] =
                                             written[r] \cup {sectionName(i[r])}]
                           /\ i' = [i EXCEPT ![r] = i[r] + 1]
                           /\ UNCHANGED << pc, browser, response >>
                      ELSE /\ Failed(r)
                           /\ UNCHANGED << fs, written, i >>
    /\ UNCHANGED << envVars, clock, dirs, uniqueDir, scrollVars, finalEls, sections,
                    metadata, numScreenshots >>

\* after the loop: await fs.unlink(masterScreenshotPath); return sections.length
Unlink(r) ==
    /\ pc[r] = "slice"
    /\ i[r] = Len(sections[r])
    /\ IF masterFiles(uniqueDir[r]) = {}
       THEN /\ Failed(r)
            /\ UNCHANGED << fs, numScreenshots >>
       ELSE /\ fs' = fs \ masterFiles(uniqueDir[r])
            /\ numScreenshots' = [numScreenshots EXCEPT ![r] = Len(sections[r])]
            /\ pc' = [pc EXCEPT ![r] = "respond"]
            /\ UNCHANGED << browser, response >>
    /\ UNCHANGED << envVars, clock, dirs, uniqueDir, scrollVars, finalEls, sections,
                    sliceVars, written >>

\* the 200 response, then finally { await browser.close() }
Respond(r) ==
    /\ pc[r] = "respond"
    /\ response' = [response EXCEPT ![r] =
                       [status |-> 200,
                        screenshots |-> screenshotPaths(uniqueDir[r], numScreenshots[r])]]
    /\ browser' = [browser EXCEPT ![r] = FALSE]
    /\ pc' = [pc EXCEPT ![r] = "done"]
    /\ UNCHANGED << envVars, clock, fs, dirs, uniqueDir, scrollVars, finalEls, sections,
                    sliceVars, written, numScreenshots >>

\* a millisecond passes; only a request that has yet to read the clock sees it
Tick ==
    /\ clock < MaxClock
    /\ \E r \in active : pc[r] \in {"post", "launch", "mkdir"}
    /\ clock' = clock + 1
    /\ UNCHANGED << envVars, fs, dirs, pc, browser, uniqueDir, scrollVars, finalEls,
                    sections, sliceVars, written, numScreenshots, response >>

\* ------------------------------------------------------------- inputs
Box(t, l, w, h) ==
    [display |-> "block", visibility |-> "visible", opacity |-> "1", position |-> "static",
     top |-> t, left |-> l, width |-> w, height |-> h]

Url(h) == [kind |-> "valid", hostname |-> h]
InvalidUrl == [kind |-> "invalid"]
HostWwwA == <<"w", "w", "w", ".", "a">>
HostA == <<"a">>
HostB == <<"b">>

Dom(n, parent, el, main) == [n |-> n, parent |-> parent, el |-> el, main |-> main]

\* flat pages: body > [e1 .. en], boxes that reach over every edge of the raster
FlatBoxes ==
    {Box(t, 0, Px(ViewportWidth), h) :
        t \in {Px(-100), Px(0), Px(700) + 1, Px(900)}, h \in {Px(40), Px(120) + 1, Px(300)}}
    \cup {Box(0, l, w, Px(300)) :
        l \in {Px(-100), Px(0), Px(1300)}, w \in {Px(200), Px(ViewportWidth), Px(1400)}}

FlatDoms ==
    UNION {{Dom(n, [e \in 1..n |-> Body], el, 0) : el \in [1..n -> FlatBoxes]} : n \in 0..MaxFlat}

RasterHeights == {ViewportHeight, ViewportHeight + 200}

FlatPages ==
    {[dom |-> d, rasterWidth |-> ViewportWidth, rasterHeight |-> rh, scrollHeight |-> GrowStep] :
        d \in FlatDoms, rh \in RasterHeights}

\* nested pages: five elements in the shapes the detector tells apart
TreeShapes ==
    { <<0, 1, 2, 2, 2>>,    \* body > div > div > [A, B, C]
      <<0, 0, 1, 1, 1>>,    \* body > [M > [a, b, c], F]
      <<0, 0, 1, 1, 2>>,    \* body > [M > [a, b], F > [c]]
      <<0, 0, 2, 2, 2>>,    \* body > [nav, main > [a, b, c]]
      <<0, 0, 0, 0, 0>>,    \* body > [a, b, c, d, e]
      <<0, 1, 1, 2, 3>> }   \* body > div > [A > [a], B > [b]]

TreeBoxes ==
    {Box(Px(0), 0, Px(ViewportWidth), Px(60)),
     Box(Px(100), 0, Px(ViewportWidth), Px(60)),
     Box(Px(0), 0, Px(ViewportWidth), Px(240)),
     Box(Px(100), 0, Px(ViewportWidth), Px(1000)),
     Box(Px(0), 0, Px(ViewportWidth), Px(40)),
     [Box(Px(0), 0, Px(ViewportWidth), Px(120)) EXCEPT !.position = "fixed"]}

TreeDoms ==
    {Dom(5, p, el, m) : p \in TreeShapes, el \in [1..5 -> TreeBoxes], m \in {0, 2}}

TreePages ==
    {[dom |-> d, rasterWidth |-> ViewportWidth, rasterHeight |-> ViewportHeight,
      scrollHeight |-> MaxScrollHeight] : d \in TreeDoms}

\* two pages for concurrent requests: one that slices, one whose crop fails
RunPages ==
    {[dom |-> Dom(2, <<0, 0>>, <<Box(Px(0), 0, Px(ViewportWidth), Px(300)), b>>, 0),
      rasterWidth |-> ViewportWidth, rasterHeight |-> ViewportHeight,
      scrollHeight |-> GrowStep] :
        b \in {Box(Px(300), 0, Px(ViewportWidth), Px(300)),
               Box(Px(-100), 0, Px(ViewportWidth), Px(300))}}

ScrollHeights == {h \in 0..MaxScrollHeight : h % 100 = 0}

BlankPage(h) ==
    [dom |-> Dom(0, << >>, << >>, 0), rasterWidth |-> ViewportWidth,
     rasterHeight |-> ViewportHeight, scrollHeight |-> h]

Impls == {"part_000", "route"}

\* --------------------------------------------------------------- Init
\* the accumulated distance at which the scroll loop leaves a page of height h
scrolledTo(h) == Max(1, (h + distance - 1) \div distance) * distance

\* The requests of acts stand at position at ("post": as they arrive; "scroll":
\* as the scroll loop starts; "measure": scrolled to the end, before the
\* detector runs); the other requests are never made.
Start(acts, at) ==
    /\ active = acts
    /\ \A r \in Runs \ acts : impl[r] = "part_000" /\ url[r] = NoUrl
    /\ clock = 0
    /\ fs = {}
    /\ dirs = IF at = "post" THEN {} ELSE {uniqueDirOf(url[r], 0) : r \in acts}
    /\ pc = [r \in Runs |-> IF r \in acts THEN at ELSE "idle"]
    /\ browser = [r \in Runs |-> r \in acts /\ at # "post"]
    /\ uniqueDir = [r \in Runs |->
                      IF r \in acts /\ at # "post" THEN uniqueDirOf(url[r], 0) ELSE NoDir]
    /\ totalHeight = [r \in Runs |->
                        IF r \in acts /\ at = "measure"
                        THEN scrolledTo(page[r].scrollHeight) ELSE 0]
    /\ scrollHeight = [r \in Runs |->
                         IF r \in acts /\ at # "post" THEN page[r].scrollHeight ELSE 0]
    /\ scrollY = [r \in Runs |->
                    IF r \in acts /\ at = "measure"
                    THEN Max(0, page[r].scrollHeight - ViewportHeight) ELSE 0]
    /\ finalEls = [r \in Runs |-> << >>]
    /\ sections = [r \in Runs |-> << >>]
    /\ metadata = [r \in Runs |-> [width |-> 0, height |-> 0]]
    /\ i = [r \in Runs |-> 0]
    /\ clip = [r \in Runs |-> NoClip]
    /\ handed = [r \in Runs |-> FALSE]
    /\ written = [r \in Runs |-> {}]
    /\ numScreenshots = [r \in Runs |-> 0]
    /\ response = [r \in Runs |-> NoResponse]

\* request 1 alone, with implementation im, url u and page p
One(im, u, p) ==
    /\ impl = [r \in Runs |-> IF r = 1 THEN im ELSE "part_000"]
    /\ url = [r \in Runs |-> IF r = 1 THEN u ELSE NoUrl]
    /\ page = [r \in Runs |-> IF r = 1 THEN p ELSE BlankPage(0)]

\* one request, any flat page
Init ==
    /\ \E im \in Impls, u \in {NoUrl, InvalidUrl, Url(HostWwwA)}, p \in FlatPages :
           One(im, u, p)
    /\ Start({1}, "post")

Next ==
    \/ Tick
    \/ \E r \in active : Post(r)
    \/ \E r \in active : Launch(r)
    \/ \E r \in active : MkDir(r)
    \/ \E r \in active : Goto(r)
    \/ \E r \in active : GotoFail(r)
    \/ \E r \in active : ScrollTick(r)
    \/ \E r \in active : Grow(r)
    \/ \E r \in active : Settle(r)
    \/ \E r \in active : Measure(r)
    \/ \E r \in active : Screenshot(r)
    \/ \E r \in active : Metadata(r)
    \/ \E r \in active : Slice(r)
    \/ \E r \in active : Unlink(r)
    \/ \E r \in active : Respond(r)

Spec == Init /\ [][Next]_vars

\* two concurrent requests
InitRuns ==
    /\ impl \in [Runs -> Impls]
    /\ url \in [Runs -> {Url(HostWwwA), Url(HostA), Url(HostB)}]
    /\ page \in [Runs -> RunPages]
    /\ Start(Runs, "post")

SpecRuns == InitRuns /\ [][Next]_vars

\* the detector alone, on nested pages, scrolled
InitDetect ==
    /\ \E im \in Impls, p \in TreePages : One(im, Url(HostA), p)
    /\ Start({1}, "measure")

NextDetect == \E r \in active : Measure(r)

SpecDetect == InitDetect /\ [][NextDetect]_vars

\* the scroll loop alone, on pages of every height; the timer keeps firing
InitScroll ==
    /\ \E im \in Impls, h \in ScrollHeights : One(im, Url(HostA), BlankPage(h))
    /\ Start({1}, "scroll")

NextScroll ==
    \/ \E r \in active : ScrollTick(r)
    \/ \E r \in active : Grow(r)

SpecScroll ==
    InitScroll /\ [][NextScroll]_vars /\ \A r \in Runs : WF_vars(ScrollTick(r))

\* ------------------------------------------------------------- claims
insideRaster(c, w, h) ==
    0 <= c.left /\ 0 <= c.top /\ c.left + c.width <= w /\ c.top + c.height <= h

crops(r) == written[r] \ {MasterName}

\* the detector of request r has returned (a request fails after that only
\* once it has written master.png)
measured(r) ==
    /\ r \in active
    /\ \/ pc[r] \in {"screenshot", "metadata", "slice", "respond"}
       \/ pc[r] = "done" /\ (response[r].status = 200 \/ MasterName \in written[r])

topOf(r, k) ==
    IF impl[r] = "part_000" THEN sections[r][k].y_start ELSE sections[r][k].y

heightOf(r, e) == page[r].dom.el[e].height

\* C1: every clip that takeScreenshots hands to the raster extraction lies
\* inside the raster: 0 <= left, 0 <= top, left + width <= rasterWidth and
\* top + height <= rasterHeight.
C1_CropInsideRaster ==
    \A r \in active :
        handed[r] => insideRaster(clip[r], page[r].rasterWidth, page[r].rasterHeight)

\* C2: a section whose corrected rectangle has width <= 0 or height <= 0, such
\* as one that lies fully outside the raster, is skipped: no clip without
\* area, and none that starts beyond the raster, is handed to the extraction.
C2_DegenerateSkipped ==
    \A r \in active :
        handed[r] =>
            /\ clip[r].width > 0 /\ clip[r].height > 0
            /\ clip[r].left < page[r].rasterWidth /\ clip[r].top < page[r].rasterHeight

\* C3: in a successful run the returned count is the number of crops written,
\* the crops are numbered 1, 2, ... without a gap at every moment, and every
\* reference of the response names a crop file this run wrote.
C3_CountMatchesCrops ==
    \A r \in active :
        /\ crops(r) = 1..Cardinality(crops(r))
        /\ response[r].status = 200 =>
              /\ numScreenshots[r] = Cardinality(crops(r))
              /\ Len(response[r].screenshots) = numScreenshots[r]
              /\ \A k \in 1..Len(response[r].screenshots) :
                    LET ref == response[r].screenshots[k] IN
                    /\ ref.dir = uniqueDir[r]
                    /\ ref.name = k
                    /\ ref.name \in crops(r)
                    /\ \E f \in fs : f.dir = ref.dir /\ f.name = ref.name

\* C3's case: a successful run that wrote two crops
C3_Witness ==
    \E r \in active :
        response[r].status = 200 /\ numScreenshots[r] = 2 /\ Cardinality(crops(r)) = 2

\* C4: a run that captured master.png has deleted it when it ends, however
\* it ends.
C4_RasterDeleted ==
    \A r \in active :
        (pc[r] = "done" /\ MasterName \in written[r]) => masterFiles(uniqueDir[r]) = {}

C6_EmptyIsSuccess ==
    /\ [](\A r \in Runs :
            (measured(r) /\ sections[r] = << >>) =>
                /\ written[r] = {}
                /\ response[r].status \in {0, 200}
                /\ response[r].screenshots = << >>
                /\ pc[r] \in {"respond", "done"}
                /\ pc[r] = "done" => response[r].status = 200)
    /\ [][\A r \in Runs :
            (pc[r] = "measure" /\ pc'[r] # "measure" /\ sections'[r] = << >>) =>
                pc'[r] = "respond"]_vars

\* C6's case: a request for a page without sections has been answered
C6_Witness ==
    \E r \in active :
        /\ pc[r] = "done" /\ url[r] # NoUrl /\ browser[r] = FALSE
        /\ sections[r] = << >> /\ numScreenshots[r] = 0
        /\ response[r] = [status |-> 200, screenshots |-> << >>]

\* C7: any two requests have distinct output directories, also two requests
\* for the same host that read the same clock value.
C7_DistinctNamespaces ==
    \A r1, r2 \in active :
        (r1 # r2 /\ uniqueDir[r1] # NoDir /\ uniqueDir[r2] # NoDir) =>
            uniqueDir[r1] # uniqueDir[r2]

\* C8: when one candidate is taller than 80% of the candidates' summed height,
\* the result holds its qualifying children and every other candidate, each
\* once, and not the candidate itself; otherwise the result holds exactly the
\* candidates.
C8_MegaCollapse ==
    \A r \in active :
        (measured(r) /\ impl[r] = "part_000") =>
            LET dom == page[r].dom
                cands == candidateElements(dom)
                total == sumHeights(dom, cands)
                megas == {m \in Range(cands) : 10 * heightOf(r, m) > 8 * total}
                result == Range(finalEls[r])
            IN  /\ Len(finalEls[r]) = Cardinality(result)
                /\ IF megas = {} THEN result = Range(cands)
                   ELSE \A m \in megas :
                           /\ m \notin result
                           /\ result = Range(getSections(dom, m)) \cup (Range(cands) \ {m})

\* C8's case: a mega-container with two qualifying children and a peer
C8_Witness ==
    \E r \in active :
        /\ measured(r) /\ impl[r] = "part_000"
        /\ page[r].dom.parent = <<0, 0, 1, 1, 2>>
        /\ candidateElements(page[r].dom) = <<1, 2>>
        /\ 10 * heightOf(r, 1) > 8 * (heightOf(r, 1) + heightOf(r, 2))
        /\ Range(finalEls[r]) = {2, 3, 4}

\* C9: every tick adds 200px to the accumulated distance and the loop stops at
\* a tick exactly when the accumulated distance has reached the scroll height
\* of that moment; on a page of bounded height the loop stops.
C9_ScrollLoop ==
    /\ [][\A r \in Runs :
            totalHeight'[r] # totalHeight[r] =>
                /\ totalHeight'[r] = totalHeight[r] + 200
                /\ pc'[r] = "settle" <=> totalHeight'[r] >= scrollHeight[r]
                /\ pc'[r] # "settle" => pc'[r] = "scroll"]_vars
    /\ \A r \in Runs : (pc[r] = "scroll") ~> (pc[r] = "settle")

\* C9's case: the loop has stopped on a page that grew while it was scrolled
C9_Witness ==
    \E r \in active :
        /\ pc[r] = "settle" /\ scrollHeight[r] > page[r].scrollHeight
        /\ totalHeight[r] >= scrollHeight[r]
        /\ totalHeight[r] - distance >= page[r].scrollHeight

\* the page body > div > div > [A, B, C] with every element qualifying
wrapperPage(r) ==
    /\ page[r].dom.n = 5
    /\ page[r].dom.parent = <<0, 1, 2, 2, 2>>
    /\ \A e \in 1..5 : isPotentialSection(page[r].dom, e)

\* C10 as claimed: on body > div > div > [A, B, C], all qualifying, the
\* detector returns exactly A, B, C in document order.
C10_WrapperDrilling ==
    \A r \in active :
        (measured(r) /\ impl[r] = "part_000" /\ wrapperPage(r)) => finalEls[r] = <<3, 4, 5>>

\* C10 as amended: it does so when none of A, B, C is taller than 80% of their
\* summed height and their top offsets do not decrease in document order.
C10_WrapperDrillingAmended ==
    \A r \in active :
        (/\ measured(r) /\ impl[r] = "part_000" /\ wrapperPage(r)
         /\ \A e \in 3..5 :
               10 * heightOf(r, e) <= 8 * (heightOf(r, 3) + heightOf(r, 4) + heightOf(r, 5))
         /\ page[r].dom.el[3].top <= page[r].dom.el[4].top
         /\ page[r].dom.el[4].top <= page[r].dom.el[5].top)
        => finalEls[r] = <<3, 4, 5>>

\* C10's case: such a page with sections of different heights and offsets
C10_Witness ==
    \E r \in active :
        /\ measured(r) /\ impl[r] = "part_000" /\ wrapperPage(r)
        /\ heightOf(r, 3) # heightOf(r, 4)
        /\ page[r].dom.el[3].top < page[r].dom.el[5].top
        /\ finalEls[r] = <<3, 4, 5>>
        /\ Len(sections[r]) = 3

====
